---- MODULE Spec2Model ----
(***************************************************************************)
(* Model of s1200_s2299_converter.py: the eSocial event classifier         *)
(* (detect_event_code), the three extractors (Parser1010, Parser1200,      *)
(* Parser2299), the enrichment join (join_rubricas) and the three upload   *)
(* steps of the Streamlit script that drive them.                          *)
(*                                                                         *)
(* Text is a sequence of one-character strings, so that substring search,  *)
(* padding and trimming are computed as Python computes them.  An uploaded *)
(* file is a record [name, data]; data is a byte buffer, modelled by what  *)
(* etree.fromstring makes of it: [wf |-> FALSE, ...] makes it raise,       *)
(* [wf |-> TRUE, root |-> element] makes it return that element.           *)
(* An element is [tag, attrs, text, kids]: tag is the local name, attrs a  *)
(* function from attribute names to text, text the character data directly *)
(* inside the element and kids the child elements in document order.       *)
(***************************************************************************)
EXTENDS Integers, Sequences, FiniteSets, TLC

VARIABLES
    files_1010,   \* st.file_uploader(key="s1010"): the files of step 1
    files_2299,   \* st.file_uploader(key="s2299"): the files of step 2
    files_1200,   \* st.file_uploader(key="s1200"): the files of step 3
    pc,           \* position of the script: "passo1", "passo2", "passo3", "fim"
                  \* (the steps are done), "consolidado", "pronto", "erro"
    idx,          \* number of files of the current step's loop already visited
    tmp,          \* the current step's tmp / tmp3 / tmp2: table name -> list of tables
    parsed_1010,  \* table name -> table, {} until step 1 has parsed a file
    parsed_2299,
    parsed_1200,
    iter,         \* the last loop iteration: step, file, event_code, parser called, outcome
    arg,          \* argument of a direct call of one of the core functions
    ret,          \* what that call returned or raised
    consolidado   \* what the export block showed: the download button or st.info

vars == <<files_1010, files_2299, files_1200, pc, idx, tmp, parsed_1010,
          parsed_2299, parsed_1200, iter, arg, ret, consolidado>>

-----------------------------------------------------------------------------
(* Text *)

\* s[a..] of Python for a >= 0 (1-based here: the suffix starting at position a)
Suffix(s, a) == SubSeq(s, a, Len(s))

\* n copies of character c
RECURSIVE Rep(_, _)
Rep(c, n) == IF n <= 0 THEN <<>> ELSE <<c>> \o Rep(c, n - 1)

\* positions where the two-character text "S-" starts in s
SDashAt(s) == {p \in 1..(Len(s) - 1) : s[p] = "S" /\ s[p + 1] = "-"}

\* "S-" in s
HasSDash(s) == SDashAt(s) # {}

\* s.split("S-")[-1]: what follows the last "S-" (all of s when there is none)
SplitLast(s) ==
    IF SDashAt(s) = {} THEN s
    ELSE Suffix(s, (CHOOSE p \in SDashAt(s) : \A q \in SDashAt(s) : q <= p) + 2)

\* s.rjust(w, "0")
rjust(s, w) == Rep("0", w - Len(s)) \o s

\* a zero fill that takes a leading sign for a digit
zfill_no_sign(s, w) == Rep("0", w - Len(s)) \o s

\* s.zfill(w): zeros go after a leading sign
zfill(s, w) ==
    IF Len(s) >= w THEN s
    ELSE IF Len(s) > 0 /\ s[1] \in {"+", "-"}
         THEN <<s[1]>> \o Rep("0", w - Len(s)) \o Suffix(s, 2)
         ELSE Rep("0", w - Len(s)) \o s

IsSpace(c) == c = " "

\* s.strip()
RECURSIVE lstrip(_)
lstrip(s) == IF Len(s) > 0 /\ IsSpace(s[1]) THEN lstrip(Tail(s)) ELSE s
RECURSIVE rstrip(_)
rstrip(s) ==
    IF Len(s) > 0 /\ IsSpace(s[Len(s)]) THEN rstrip(SubSeq(s, 1, Len(s) - 1)) ELSE s
strip(s) == rstrip(lstrip(s))

-----------------------------------------------------------------------------
(* lxml: elements and the XPath expressions the program uses *)

NoAttrs == [a \in {} |-> <<>>]

Elem(tag, attrs, text, kids) == [tag |-> tag, attrs |-> attrs, text |-> text, kids |-> kids]

\* element.get(a, default)
Get(e, a, default) == IF a \in DOMAIN e.attrs THEN e.attrs[a] ELSE default

\* .//* : the proper descendants of e, in document order (e itself is not one)
RECURSIVE Descendants(_)
RECURSIVE DescOfKids(_)
Descendants(e) == DescOfKids(e.kids)
DescOfKids(ks) ==
    IF ks = <<>> THEN <<>>
    ELSE <<Head(ks)>> \o Descendants(Head(ks)) \o DescOfKids(Tail(ks))

\* .//*[local-name()='n1'] | .//*[local-name()='n2'] ... in document order
XPathDesc(e, names) == SelectSeq(Descendants(e), LAMBDA d : d.tag \in names)

\* ./*[local-name()='n']
XPathChild(e, names) == SelectSeq(e.kids, LAMBDA d : d.tag \in names)

\* the XPath string-value of an element: its character data and its
\* descendants', in document order
RECURSIVE StringValue(_)
RECURSIVE StringOfKids(_)
StringValue(e) == e.text \o StringOfKids(e.kids)
StringOfKids(ks) ==
    IF ks = <<>> THEN <<>> ELSE StringValue(Head(ks)) \o StringOfKids(Tail(ks))

\* string(<node-set>): the string-value of its first node, "" when it is empty
XPathString(nodes) == IF nodes = <<>> THEN <<>> ELSE StringValue(nodes[1])

\* .//*[@Id][1]: every descendant that is the first Id-bearing child of its
\* parent, in document order
RECURSIVE FirstIdKids(_)
RECURSIVE FirstIdOfKids(_, _)
FirstIdKids(e) == FirstIdOfKids(e.kids, FALSE)
FirstIdOfKids(ks, seen) ==
    IF ks = <<>> THEN <<>>
    ELSE LET k == Head(ks)
             has == "Id" \in DOMAIN k.attrs
         IN  (IF has /\ ~seen THEN <<k>> ELSE <<>>)
             \o FirstIdKids(k) \o FirstIdOfKids(Tail(ks), seen \/ has)

-----------------------------------------------------------------------------
(* detect_event_code *)

S_1010 == <<"S", "-", "1", "0", "1", "0">>
S_1200 == <<"S", "-", "1", "2", "0", "0">>
S_2299 == <<"S", "-", "2", "2", "9", "9">>
UNKNOWN == <<"U", "N", "K", "N", "O", "W", "N">>

\* raw_id.split("S-")[-1].rjust(4, "0").join(["S-", ""])
NormalizeId(raw_id) == <<"S", "-">> \o rjust(SplitLast(raw_id), 4) \o <<>>

\* the first of the tests of lines 18-29 that succeeds on a parsed document
Rule(root) ==
    LET id_nodes == FirstIdKids(root)
    IN  IF XPathDesc(root, {"evtTabRubrica"}) # <<>> THEN "evtTabRubrica"
        ELSE IF XPathDesc(root, {"evtRemun", "evt1200"}) # <<>> THEN "evtRemun"
        ELSE IF id_nodes # <<>> /\ HasSDash(Get(id_nodes[1], "Id", <<>>)) THEN "Id"
        ELSE IF XPathDesc(root, {"evtDeslig"}) # <<>> THEN "evtDeslig"
        ELSE "none"

\* what detect_event_code returns once etree.fromstring has returned root
CodeOfRoot(root) ==
    CASE Rule(root) = "evtTabRubrica" -> S_1010
      [] Rule(root) = "evtRemun" -> S_1200
      [] Rule(root) = "Id" -> NormalizeId(Get(FirstIdKids(root)[1], "Id", <<>>))
      [] Rule(root) = "evtDeslig" -> S_2299
      [] OTHER -> UNKNOWN

\* a classifier whose XML parser recovers from errors instead of raising
detect_event_code_recover(xml_bytes) == CodeOfRoot(xml_bytes.root)

detect_event_code(xml_bytes) ==
    IF ~xml_bytes.wf THEN UNKNOWN ELSE CodeOfRoot(xml_bytes.root)

-----------------------------------------------------------------------------
(* pandas: a table is [columns, rows]; a row maps each column to a cell;   *)
(* a cell is a str, a number (kept as its canonical decimal text) or NaN.  *)

Str(s) == [t |-> "str", v |-> s]
Num(s) == [t |-> "num", v |-> s]
NaN == [t |-> "nan", v |-> <<>>]

Digits == {"0", "1", "2", "3", "4", "5", "6", "7", "8", "9"}

RECURSIVE StripLeadingZeros(_)
StripLeadingZeros(s) ==
    IF Len(s) > 0 /\ s[1] = "0" THEN StripLeadingZeros(Tail(s)) ELSE s
RECURSIVE StripTrailingZeros(_)
StripTrailingZeros(s) ==
    IF Len(s) > 0 /\ s[Len(s)] = "0"
    THEN StripTrailingZeros(SubSeq(s, 1, Len(s) - 1)) ELSE s

\* the text of a decimal number: an optional sign, digits, at most one "."
Unsigned(s) == IF Len(s) > 0 /\ s[1] \in {"+", "-"} THEN Tail(s) ELSE s
IsNumber(s) ==
    LET b == Unsigned(s)
        dots == {p \in 1..Len(b) : b[p] = "."}
    IN  /\ Cardinality(dots) <= 1
        /\ \A p \in 1..Len(b) : b[p] \in Digits \/ b[p] = "."
        /\ \E p \in 1..Len(b) : b[p] \in Digits

\* the number a decimal text denotes, as canonical text ("007" and "7.0" are 7)
NumberOf(s) ==
    LET b == Unsigned(s)
        dots == {p \in 1..Len(b) : b[p] = "."}
        d == IF dots = {} THEN Len(b) + 1 ELSE CHOOSE p \in dots : TRUE
        ip == StripLeadingZeros(SubSeq(b, 1, d - 1))
        fp == StripTrailingZeros(SubSeq(b, d + 1, Len(b)))
        mag == (IF ip = <<>> THEN <<"0">> ELSE ip)
               \o (IF fp = <<>> THEN <<>> ELSE <<".">> \o fp)
    IN  IF s[1] = "-" /\ mag # <<"0">> THEN <<"-">> \o mag ELSE mag

\* pd.to_numeric(cell, errors="coerce")
to_numeric(cell) ==
    IF cell.t = "num" THEN cell
    ELSE IF cell.t = "str" /\ IsNumber(cell.v) THEN Num(NumberOf(cell.v))
    ELSE NaN

\* pd.DataFrame(rows): the columns are the keys of the dicts; none when rows = []
DataFrame(rows, keys) == [columns |-> IF rows = <<>> THEN <<>> ELSE keys, rows |-> rows]

Range(s) == {s[i] : i \in DOMAIN s}

\* df.rename(columns=m)
rename(df, m) ==
    LET new(c) == IF c \in DOMAIN m THEN m[c] ELSE c
    IN  [columns |-> [i \in DOMAIN df.columns |-> new(df.columns[i])],
         rows |-> [i \in DOMAIN df.rows |->
                     [c \in {new(k) : k \in DOMAIN df.rows[i]} |->
                        df.rows[i][CHOOSE k \in DOMAIN df.rows[i] : new(k) = c]]]]

\* df[cols] raises KeyError unless every one of cols is a column of df
HasColumns(df, cols) == cols \subseteq Range(df.columns)

\* df[cols] = df[cols].apply(pd.to_numeric, errors="coerce")
ApplyToNumeric(df, cols) ==
    [df EXCEPT !.rows = [i \in DOMAIN df.rows |->
        [c \in DOMAIN df.rows[i] |->
            IF c \in cols THEN to_numeric(df.rows[i][c]) ELSE df.rows[i][c]]]]

RECURSIVE Flatten(_)
Flatten(ss) == IF ss = <<>> THEN <<>> ELSE Head(ss) \o Flatten(Tail(ss))

\* what a call returns or raises
Returned(v) == [ok |-> TRUE, error |-> "", value |-> v]
Raised(e) == [ok |-> FALSE, error |-> e, value |-> <<>>]

-----------------------------------------------------------------------------
(* BaseParser._txt(node, "string(.//*[local-name()='name'])") *)

BaseParser_txt(node, name) == strip(XPathString(XPathDesc(node, {name})))

\* BaseParser._txt(node, "string(./*[local-name()='name'])")
BaseParser_txt_child(node, name) == strip(XPathString(XPathChild(node, {name})))

\* bool(element) of lxml: whether the element has children
Truthy(e) == e.kids # <<>>

-----------------------------------------------------------------------------
(* Parser1010 *)

Parser1010_COL_EVT ==
    [id_evento |-> "ID Evento", tp_amb |-> "Tipo Ambiente",
     proc_emi |-> "Processo Emissão", ver_proc |-> "Versão Processo",
     tp_insc |-> "Tipo Inscrição", nr_insc |-> "Nº Inscrição",
     origem_arquivo |-> "Origem Arquivo"]

Parser1010_COL_RUB ==
    [id_evento |-> "ID Evento", acao |-> "Ação", cod_rubr |-> "Código Rubrica",
     ide_tab_rubr |-> "ID Tabela Rubrica", ini_valid |-> "Início Vigência",
     fim_valid |-> "Fim Vigência", dsc_rubr |-> "Descrição Rubrica",
     nat_rubr |-> "Natureza Rubrica", tp_rubr |-> "Tipo Rubrica",
     cod_inc_cp |-> "Incidência INSS", cod_inc_irrf |-> "Incidência IRRF",
     cod_inc_fgts |-> "Incidência FGTS", origem_arquivo |-> "Origem Arquivo"]

Keys1010_EVT ==
    <<"id_evento", "tp_amb", "proc_emi", "ver_proc", "tp_insc", "nr_insc",
      "origem_arquivo">>
Keys1010_RUB ==
    <<"id_evento", "acao", "cod_rubr", "ide_tab_rubr", "ini_valid", "fim_valid",
      "dsc_rubr", "nat_rubr", "tp_rubr", "cod_inc_cp", "cod_inc_irrf",
      "cod_inc_fgts", "origem_arquivo">>

Actions1010 == <<"inclusao", "alteracao", "exclusao">>

\* the text of an action name, as the "Ação" cell holds it
ActionText(action) ==
    CASE action = "inclusao" -> <<"i", "n", "c", "l", "u", "s", "a", "o">>
      [] action = "alteracao" -> <<"a", "l", "t", "e", "r", "a", "c", "a", "o">>
      [] action = "exclusao" -> <<"e", "x", "c", "l", "u", "s", "a", "o">>

\* the header dict of Parser1010.parse
Header1010(evt, file_name) ==
    [id_evento |-> Str(Get(evt, "Id", <<>>)),
     tp_amb |-> Str(BaseParser_txt(evt, "tpAmb")),
     proc_emi |-> Str(BaseParser_txt(evt, "procEmi")),
     ver_proc |-> Str(BaseParser_txt(evt, "verProc")),
     tp_insc |-> Str(BaseParser_txt(evt, "tpInsc")),
     nr_insc |-> Str(BaseParser_txt(evt, "nrInsc")),
     origem_arquivo |-> Str(file_name)]

\* the dict appended to rows_rub for one action element (which has an ideRubrica)
RowRub1010(header, action, node, file_name) ==
    LET ide == XPathDesc(node, {"ideRubrica"})[1]
        dd == XPathDesc(node, {"dadosRubrica"})
        has == dd # <<>> /\ Truthy(dd[1])
        data(name) == IF has THEN BaseParser_txt(dd[1], name) ELSE <<>>
    IN  [id_evento |-> header.id_evento,
         acao |-> Str(ActionText(action)),
         cod_rubr |-> Str(BaseParser_txt(ide, "codRubr")),
         ide_tab_rubr |-> Str(BaseParser_txt(ide, "ideTabRubr")),
         ini_valid |-> Str(BaseParser_txt(ide, "iniValid")),
         fim_valid |-> Str(BaseParser_txt(ide, "fimValid")),
         dsc_rubr |-> Str(data("dscRubr")),
         nat_rubr |-> Str(data("natRubr")),
         tp_rubr |-> Str(data("tpRubr")),
         cod_inc_cp |-> Str(data("codIncCP")),
         cod_inc_irrf |-> Str(data("codIncIRRF")),
         cod_inc_fgts |-> Str(data("codIncFGTS")),
         origem_arquivo |-> Str(file_name)]

\* the action elements the two nested loops visit, as <<action, node>>, in
\* the loops' order
ActionNodes(evt) ==
    Flatten([a \in DOMAIN Actions1010 |->
        LET ns == XPathDesc(evt, {Actions1010[a]})
        IN  [i \in DOMAIN ns |-> <<Actions1010[a], ns[i]>>]])

NumCols1010 == {"Tipo Rubrica", "Incidência INSS", "Incidência IRRF", "Incidência FGTS"}

Parser1010_parse(xml_bytes, file_name) ==
    IF ~xml_bytes.wf THEN Raised("XMLSyntaxError")
    ELSE LET evt_nodes == XPathDesc(xml_bytes.root, {"evtTabRubrica"})
         IN  IF evt_nodes = <<>> THEN Raised("ValueError")
             ELSE
             LET evt == evt_nodes[1]
                 header == Header1010(evt, file_name)
                 df_evt == rename(DataFrame(<<header>>, Keys1010_EVT), Parser1010_COL_EVT)
                 nodes == ActionNodes(evt)
             IN  IF \E i \in DOMAIN nodes : XPathDesc(nodes[i][2], {"ideRubrica"}) = <<>>
                 THEN Raised("IndexError")
                 ELSE
                 LET rows_rub == [i \in DOMAIN nodes |->
                                    RowRub1010(header, nodes[i][1], nodes[i][2], file_name)]
                     df_rub == rename(DataFrame(rows_rub, Keys1010_RUB), Parser1010_COL_RUB)
                 IN  IF ~HasColumns(df_rub, NumCols1010) THEN Raised("KeyError")
                     ELSE Returned([CABECALHO_1010 |-> df_evt,
                                    RUBRICAS_1010 |-> ApplyToNumeric(df_rub, NumCols1010)])

-----------------------------------------------------------------------------
(* Parser1200 *)

Parser1200_COL_EVT ==
    [id_evento |-> "ID Evento", per_apur |-> "Período Apuração",
     ind_retif |-> "Ind Retificação", tp_amb |-> "Tipo Ambiente",
     cpf_trab |-> "CPF Trabalhador", origem_arquivo |-> "Origem Arquivo"]

Parser1200_COL_DMDEV ==
    [id_dmdev |-> "ID Demonstrativo", id_evento |-> "ID Evento",
     per_apur |-> "Período Apuração", cpf_trab |-> "CPF Trabalhador",
     cod_categ |-> "Código Categoria", matricula |-> "Matrícula",
     cod_lotacao |-> "Código Lotação", origem_arquivo |-> "Origem Arquivo"]

Parser1200_COL_RUB ==
    [id_dmdev |-> "ID Demonstrativo", per_apur |-> "Período Apuração",
     cpf_trab |-> "CPF Trabalhador", matricula |-> "Matrícula",
     cod_rubr |-> "Código Rubrica", ide_tab_rubr |-> "ID Tabela Rubrica",
     qtd_rubr |-> "Quantidade", vr_rubr |-> "Valor Rubrica (R$)",
     ind_apur_ir |-> "Ind Apur IR", origem_arquivo |-> "Origem Arquivo"]

Keys1200_EVT ==
    <<"id_evento", "per_apur", "ind_retif", "tp_amb", "cpf_trab", "origem_arquivo">>
Keys1200_DMDEV ==
    <<"id_dmdev", "id_evento", "per_apur", "cpf_trab", "cod_categ", "matricula",
      "cod_lotacao", "origem_arquivo">>
Keys1200_RUB ==
    <<"id_dmdev", "per_apur", "cpf_trab", "matricula", "cod_rubr", "ide_tab_rubr",
      "qtd_rubr", "vr_rubr", "ind_apur_ir", "origem_arquivo">>

CpfWidth == 11
MatriculaWidth == 8

Header1200(evt, file_name) ==
    [id_evento |-> Str(Get(evt, "Id", <<>>)),
     per_apur |-> Str(BaseParser_txt(evt, "perApur")),
     ind_retif |-> Str(BaseParser_txt(evt, "indRetif")),
     tp_amb |-> Str(BaseParser_txt(evt, "tpAmb")),
     cpf_trab |-> Str(zfill(BaseParser_txt(evt, "cpfTrab"), CpfWidth)),
     origem_arquivo |-> Str(file_name)]

\* est = dm.xpath(".//*[local-name()='ideEstabLot']")[0]
FirstEstab(dm) == XPathDesc(dm, {"ideEstabLot"})[1]

\* matric of one dmDev (which has an ideEstabLot)
Matric(dm) == zfill(BaseParser_txt(FirstEstab(dm), "matricula"), MatriculaWidth)

\* the dict appended to rows_dm for one dmDev
RowDm1200(header, dm, file_name) ==
    [id_dmdev |-> Str(BaseParser_txt(dm, "ideDmDev")),
     id_evento |-> header.id_evento,
     per_apur |-> header.per_apur,
     cpf_trab |-> header.cpf_trab,
     cod_categ |-> Str(BaseParser_txt(dm, "codCateg")),
     matricula |-> Str(Matric(dm)),
     cod_lotacao |-> Str(BaseParser_txt_child(FirstEstab(dm), "codLotacao")),
     origem_arquivo |-> Str(file_name)]

\* a line-item row that looks for the declaration id inside the line item
RowRb1200_id_of_item(header, dm, it, file_name) ==
    [id_dmdev |-> Str(BaseParser_txt(it, "ideDmDev")),
     per_apur |-> header.per_apur,
     cpf_trab |-> header.cpf_trab,
     matricula |-> Str(Matric(dm)),
     cod_rubr |-> Str(BaseParser_txt(it, "codRubr")),
     ide_tab_rubr |-> Str(BaseParser_txt(it, "ideTabRubr")),
     qtd_rubr |-> Str(BaseParser_txt(it, "qtdRubr")),
     vr_rubr |-> Str(BaseParser_txt(it, "vrRubr")),
     ind_apur_ir |-> Str(BaseParser_txt(it, "indApurIR")),
     origem_arquivo |-> Str(file_name)]

\* the dict appended to rows_rb for one itensRemun of one dmDev
RowRb1200(header, dm, it, file_name) ==
    [id_dmdev |-> Str(BaseParser_txt(dm, "ideDmDev")),
     per_apur |-> header.per_apur,
     cpf_trab |-> header.cpf_trab,
     matricula |-> Str(Matric(dm)),
     cod_rubr |-> Str(BaseParser_txt(it, "codRubr")),
     ide_tab_rubr |-> Str(BaseParser_txt(it, "ideTabRubr")),
     qtd_rubr |-> Str(BaseParser_txt(it, "qtdRubr")),
     vr_rubr |-> Str(BaseParser_txt(it, "vrRubr")),
     ind_apur_ir |-> Str(BaseParser_txt(it, "indApurIR")),
     origem_arquivo |-> Str(file_name)]

\* the line-item elements the inner loop visits for one dmDev
ItensOf(dm, item) == XPathDesc(FirstEstab(dm), {item})

NumColsRb == {"Quantidade", "Valor Rubrica (R$)"}

Parser1200_parse(xml_bytes, file_name) ==
    IF ~xml_bytes.wf THEN Raised("XMLSyntaxError")
    ELSE LET evt_nodes == XPathDesc(xml_bytes.root, {"evtRemun", "evt1200"})
         IN  IF evt_nodes = <<>> THEN Raised("ValueError")
             ELSE
             LET evt == evt_nodes[1]
                 header == Header1200(evt, file_name)
                 df_evt == rename(DataFrame(<<header>>, Keys1200_EVT), Parser1200_COL_EVT)
                 dms == XPathDesc(evt, {"dmDev"})
             IN  IF \E i \in DOMAIN dms : XPathDesc(dms[i], {"ideEstabLot"}) = <<>>
                 THEN Raised("IndexError")
                 ELSE
                 LET rows_dm == [i \in DOMAIN dms |-> RowDm1200(header, dms[i], file_name)]
                     rows_rb == Flatten([i \in DOMAIN dms |->
                                   LET its == ItensOf(dms[i], "itensRemun")
                                   IN  [j \in DOMAIN its |->
                                          RowRb1200(header, dms[i], its[j], file_name)]])
                     df_dm == rename(DataFrame(rows_dm, Keys1200_DMDEV), Parser1200_COL_DMDEV)
                     df_rb == rename(DataFrame(rows_rb, Keys1200_RUB), Parser1200_COL_RUB)
                 IN  IF ~HasColumns(df_dm, {"Código Categoria"}) THEN Raised("KeyError")
                     ELSE IF ~HasColumns(df_rb, NumColsRb) THEN Raised("KeyError")
                     ELSE Returned([CABECALHO_1200 |-> df_evt,
                                    DEMONSTRATIVO_1200 |->
                                        ApplyToNumeric(df_dm, {"Código Categoria"}),
                                    RUBRICAS_1200 |-> ApplyToNumeric(df_rb, NumColsRb)])

-----------------------------------------------------------------------------
(* Parser2299 *)

Parser2299_COL_EVT ==
    [id_evento |-> "ID Evento", dt_deslig |-> "Data Desligamento",
     mtv_deslig |-> "Motivo Desligamento (código)", ind_retif |-> "Ind Retificação",
     tp_amb |-> "Tipo Ambiente", cpf_trab |-> "CPF Trabalhador",
     origem_arquivo |-> "Origem Arquivo"]

Parser2299_COL_DMDEV ==
    [id_dmdev |-> "ID Demonstrativo", id_evento |-> "ID Evento",
     cpf_trab |-> "CPF Trabalhador", cod_categ |-> "Código Categoria",
     matricula |-> "Matrícula", cod_lotacao |-> "Código Lotação",
     origem_arquivo |-> "Origem Arquivo"]

Parser2299_COL_RUB ==
    [id_dmdev |-> "ID Demonstrativo", dt_deslig |-> "Data Desligamento",
     cpf_trab |-> "CPF Trabalhador", matricula |-> "Matrícula",
     cod_rubr |-> "Código Rubrica", ide_tab_rubr |-> "ID Tabela Rubrica",
     qtd_rubr |-> "Quantidade", vr_rubr |-> "Valor Rubrica (R$)",
     ind_apur_ir |-> "Ind Apur IR", origem_arquivo |-> "Origem Arquivo"]

Keys2299_EVT ==
    <<"id_evento", "dt_deslig", "mtv_deslig", "ind_retif", "tp_amb", "cpf_trab",
      "origem_arquivo">>
Keys2299_DMDEV ==
    <<"id_dmdev", "id_evento", "cpf_trab", "cod_categ", "matricula", "cod_lotacao",
      "origem_arquivo">>
Keys2299_RUB ==
    <<"id_dmdev", "dt_deslig", "cpf_trab", "matricula", "cod_rubr", "ide_tab_rubr",
      "qtd_rubr", "vr_rubr", "ind_apur_ir", "origem_arquivo">>

Header2299(evt, file_name) ==
    [id_evento |-> Str(Get(evt, "Id", <<>>)),
     dt_deslig |-> Str(BaseParser_txt(evt, "dtDeslig")),
     mtv_deslig |-> Str(BaseParser_txt(evt, "mtvDeslig")),
     ind_retif |-> Str(BaseParser_txt(evt, "indRetif")),
     tp_amb |-> Str(BaseParser_txt(evt, "tpAmb")),
     cpf_trab |-> Str(zfill(BaseParser_txt(evt, "cpfTrab"), CpfWidth)),
     origem_arquivo |-> Str(file_name)]

\* dm.get("id") or dm.get("Id") or cls._txt(dm, "string(.//*[local-name()='ideDmDev'])")
IdDm2299(dm) ==
    IF Get(dm, "id", <<>>) # <<>> THEN Get(dm, "id", <<>>)
    ELSE IF Get(dm, "Id", <<>>) # <<>> THEN Get(dm, "Id", <<>>)
    ELSE BaseParser_txt(dm, "ideDmDev")

RowDm2299(header, dm, file_name) ==
    [id_dmdev |-> Str(IdDm2299(dm)),
     id_evento |-> header.id_evento,
     cpf_trab |-> header.cpf_trab,
     cod_categ |-> Str(BaseParser_txt(dm, "codCateg")),
     matricula |-> Str(Matric(dm)),
     cod_lotacao |-> Str(BaseParser_txt_child(FirstEstab(dm), "codLotacao")),
     origem_arquivo |-> Str(file_name)]

RowRb2299(header, dm, det, file_name) ==
    [id_dmdev |-> Str(IdDm2299(dm)),
     dt_deslig |-> header.dt_deslig,
     cpf_trab |-> header.cpf_trab,
     matricula |-> Str(Matric(dm)),
     cod_rubr |-> Str(BaseParser_txt(det, "codRubr")),
     ide_tab_rubr |-> Str(BaseParser_txt(det, "ideTabRubr")),
     qtd_rubr |-> Str(BaseParser_txt(det, "qtdRubr")),
     vr_rubr |-> Str(BaseParser_txt(det, "vrRubr")),
     ind_apur_ir |-> Str(BaseParser_txt(det, "indApurIR")),
     origem_arquivo |-> Str(file_name)]

Parser2299_parse(xml_bytes, file_name) ==
    IF ~xml_bytes.wf THEN Raised("XMLSyntaxError")
    ELSE LET evt_nodes == XPathDesc(xml_bytes.root, {"evtDeslig"})
         IN  IF evt_nodes = <<>> THEN Raised("ValueError")
             ELSE
             LET evt == evt_nodes[1]
                 header == Header2299(evt, file_name)
                 df_evt == rename(DataFrame(<<header>>, Keys2299_EVT), Parser2299_COL_EVT)
                 dms == XPathDesc(evt, {"dmDev"})
             IN  IF \E i \in DOMAIN dms : XPathDesc(dms[i], {"ideEstabLot"}) = <<>>
                 THEN Raised("IndexError")
                 ELSE
                 LET rows_dm == [i \in DOMAIN dms |-> RowDm2299(header, dms[i], file_name)]
                     rows_rb == Flatten([i \in DOMAIN dms |->
                                   LET dets == ItensOf(dms[i], "detVerbas")
                                   IN  [j \in DOMAIN dets |->
                                          RowRb2299(header, dms[i], dets[j], file_name)]])
                     df_dm == rename(DataFrame(rows_dm, Keys2299_DMDEV), Parser2299_COL_DMDEV)
                     df_rb == rename(DataFrame(rows_rb, Keys2299_RUB), Parser2299_COL_RUB)
                 IN  IF ~HasColumns(df_dm, {"Código Categoria"}) THEN Raised("KeyError")
                     ELSE IF ~HasColumns(df_rb, NumColsRb) THEN Raised("KeyError")
                     ELSE Returned([CABECALHO_2299 |-> df_evt,
                                    DEMONSTRATIVO_2299 |->
                                        ApplyToNumeric(df_dm, {"Código Categoria"}),
                                    RUBRICAS_2299 |-> ApplyToNumeric(df_rb, NumColsRb)])

-----------------------------------------------------------------------------
(* join_rubricas *)

\* the column names of df
ColumnSet(df) == Range(df.columns)

\* left.merge(right, how="left", on=key, suffixes=("", suffix)): the name a
\* column of right gets in the result
MergedName(left, key, suffix, c) ==
    IF c # key /\ c \in ColumnSet(left) THEN c \o suffix ELSE c

\* a match that ignores the key: every row of right
Matches_any(l, right, key) == right.rows

\* the rows of right whose key equals that of the left row l, in right's order
Matches(l, right, key) ==
    SelectSeq(right.rows, LAMBDA r : r[key] = l[key])

\* one row of the merge: the left row l and the right row r (or no right row)
MergedRow(left, right, key, suffix, l, r, found) ==
    LET rcols == {c \in ColumnSet(right) : c # key}
        names == ColumnSet(left) \cup {MergedName(left, key, suffix, c) : c \in rcols}
    IN  [n \in names |->
            IF n \in ColumnSet(left) THEN l[n]
            ELSE IF found
                 THEN r[CHOOSE c \in rcols : MergedName(left, key, suffix, c) = n]
                 ELSE NaN]

\* df_rb.merge(df_rub, how="left", on=key, suffixes=("", suffix))
merge_left(left, right, key, suffix) ==
    [columns |-> left.columns \o
                 [i \in DOMAIN SelectSeq(right.columns, LAMBDA c : c # key) |->
                    MergedName(left, key, suffix,
                               SelectSeq(right.columns, LAMBDA c : c # key)[i])],
     rows |-> Flatten([i \in DOMAIN left.rows |->
                 LET l == left.rows[i]
                     ms == Matches(l, right, key)
                 IN  IF ms = <<>>
                     THEN <<MergedRow(left, right, key, suffix, l, l, FALSE)>>
                     ELSE [j \in DOMAIN ms |->
                             MergedRow(left, right, key, suffix, l, ms[j], TRUE)]])]

\* df[cols], for cols that are columns of df
Project(df, cols) ==
    [columns |-> cols,
     rows |-> [i \in DOMAIN df.rows |-> [c \in Range(cols) |-> df.rows[i][c]]]]

\* pd.concat([a.reset_index(drop=True), b.reset_index(drop=True)], axis=1) for
\* tables without a common column: row i of a beside row i of b, NaN where
\* one of them has no row i
concat_axis1(a, b) ==
    LET n == IF Len(a.rows) >= Len(b.rows) THEN Len(a.rows) ELSE Len(b.rows)
    IN  [columns |-> a.columns \o b.columns,
         rows |-> [i \in 1..n |->
                     [c \in ColumnSet(a) \cup ColumnSet(b) |->
                        IF c \in ColumnSet(a)
                        THEN (IF i <= Len(a.rows) THEN a.rows[i][c] ELSE NaN)
                        ELSE (IF i <= Len(b.rows) THEN b.rows[i][c] ELSE NaN)]]]

extra_cols ==
    <<"Início Vigência", "Fim Vigência", "Descrição Rubrica", "Natureza Rubrica",
      "Tipo Rubrica", "Incidência INSS", "Incidência IRRF", "Incidência FGTS",
      "Origem Arquivo_1010">>

join_rubricas(df_rb, df_rub) ==
    IF ~HasColumns(df_rb, {"Código Rubrica"}) \/ ~HasColumns(df_rub, {"Código Rubrica"})
    THEN Raised("KeyError")
    ELSE LET merged == merge_left(df_rb, df_rub, "Código Rubrica", "_1010")
         IN  IF ~HasColumns(merged, Range(extra_cols)) THEN Raised("KeyError")
             ELSE Returned(concat_axis1(df_rb, Project(merged, extra_cols)))

-----------------------------------------------------------------------------
(* harmonizar_rubricas_2299 *)

DigitChars == <<"0", "1", "2", "3", "4", "5", "6", "7", "8", "9">>
DigitValue(c) == (CHOOSE i \in DOMAIN DigitChars : DigitChars[i] = c) - 1
AllDigits(s) == \A i \in DOMAIN s : s[i] \in Digits

\* the number written by a text of digits
RECURSIVE ValueOf(_)
ValueOf(s) ==
    IF s = <<>> THEN 0
    ELSE 10 * ValueOf(SubSeq(s, 1, Len(s) - 1)) + DigitValue(s[Len(s)])

\* the decimal digits of a natural number
RECURSIVE Decimal(_)
Decimal(n) ==
    IF n < 10 THEN <<DigitChars[n + 1]>>
    ELSE Decimal(n \div 10) \o <<DigitChars[(n % 10) + 1]>>

IsLeap(y) == (y % 4 = 0 /\ y % 100 # 0) \/ y % 400 = 0
DaysIn(y, m) ==
    IF m = 2 THEN (IF IsLeap(y) THEN 29 ELSE 28)
    ELSE IF m \in {4, 6, 9, 11} THEN 30 ELSE 31

\* a calendar date that a datetime64[ns] value can hold
\* (pd.Timestamp.min is 1677-09-21 00:12:43, pd.Timestamp.max 2262-04-11 23:47:16)
InBounds(y, m, d) ==
    /\ m \in 1..12 /\ d \in 1..DaysIn(y, m)
    /\ y * 10000 + m * 100 + d >= 16770922
    /\ y * 10000 + m * 100 + d <= 22620411

NaT == [ok |-> FALSE, y |-> 0, m |-> 0, tz |-> <<>>]
Timestamp(y, m, d, tz) == IF InBounds(y, m, d) THEN [ok |-> TRUE, y |-> y, m |-> m, tz |-> tz] ELSE NaT

\* "YYYY-MM-DD"
IsIsoDate(s) ==
    /\ Len(s) = 10 /\ s[5] = "-" /\ s[8] = "-"
    /\ AllDigits(SubSeq(s, 1, 4) \o SubSeq(s, 6, 7) \o SubSeq(s, 9, 10))

\* "hh:mm:ss" followed by "+hh:mm" or "-hh:mm"
IsTimeWithOffset(s) ==
    /\ Len(s) = 14 /\ s[3] = ":" /\ s[6] = ":" /\ s[9] \in {"+", "-"} /\ s[12] = ":"
    /\ AllDigits(SubSeq(s, 1, 2) \o SubSeq(s, 4, 5) \o SubSeq(s, 7, 8)
                 \o SubSeq(s, 10, 11) \o SubSeq(s, 13, 14))
    /\ ValueOf(SubSeq(s, 1, 2)) < 24 /\ ValueOf(SubSeq(s, 4, 5)) < 60
    /\ ValueOf(SubSeq(s, 7, 8)) < 60
    /\ ValueOf(SubSeq(s, 10, 11)) < 24 /\ ValueOf(SubSeq(s, 13, 14)) < 60

\* "DD/MM/YYYY" or "MM/DD/YYYY"
IsSlashDate(s) ==
    /\ Len(s) = 10 /\ s[3] = "/" /\ s[6] = "/"
    /\ AllDigits(SubSeq(s, 1, 2) \o SubSeq(s, 4, 5) \o SubSeq(s, 7, 10))

\* what the date parser of pd.to_datetime makes of one text: a date written
\* year first, alone or with a time and a UTC offset (the time is local, so
\* the date is kept and the offset is the value's time zone); a date written
\* with slashes, month first unless the first number cannot be a month; NaT
\* for the empty text and for text that is no date
ParseDate(s) ==
    IF IsIsoDate(s)
    THEN Timestamp(ValueOf(SubSeq(s, 1, 4)), ValueOf(SubSeq(s, 6, 7)),
                   ValueOf(SubSeq(s, 9, 10)), <<>>)
    ELSE IF Len(s) = 25 /\ IsIsoDate(SubSeq(s, 1, 10)) /\ s[11] = "T"
            /\ IsTimeWithOffset(SubSeq(s, 12, 25))
    THEN Timestamp(ValueOf(SubSeq(s, 1, 4)), ValueOf(SubSeq(s, 6, 7)),
                   ValueOf(SubSeq(s, 9, 10)), SubSeq(s, 20, 25))
    ELSE IF IsSlashDate(s)
    THEN LET a == ValueOf(SubSeq(s, 1, 2))
             b == ValueOf(SubSeq(s, 4, 5))
             y == ValueOf(SubSeq(s, 7, 10))
         IN  IF a <= 12 THEN Timestamp(y, a, b, <<>>) ELSE Timestamp(y, b, a, <<>>)
    ELSE NaT

\* pd.to_datetime(column, errors="coerce") on a column whose dates are written
\* in one format: the values, and the dtype of the result, which is
\* datetime64 unless the parsed values carry different UTC offsets, and
\* object (datetime objects) when they do
to_datetime(column) ==
    LET values == [i \in DOMAIN column |->
                      IF column[i].t = "str" THEN ParseDate(column[i].v) ELSE NaT]
        zones == {values[i].tz : i \in {j \in DOMAIN values : values[j].ok}}
    IN  [dtype |-> IF Cardinality(zones) > 1 THEN "object" ELSE "datetime64",
         values |-> values]

\* Series.dt.strftime("%Y-%m") of one value: NaN for NaT
strftime_Y_m(ts) ==
    IF ts.ok THEN Str(rjust(Decimal(ts.y), 4) \o <<"-">> \o rjust(Decimal(ts.m), 2))
    ELSE NaN

\* pd.NA
NA == [t |-> "na", v |-> <<>>]

col_order_target ==
    <<"ID Demonstrativo", "Período Apuração", "CPF Trabalhador", "Matrícula",
      "Código Rubrica", "ID Tabela Rubrica", "Quantidade", "Valor Rubrica (R$)",
      "Ind Apur IR", "Origem Arquivo", "Data Desligamento">>

\* df[c] = v for every row: a new column goes last
SetColumn(df, c, v) ==
    [columns |-> IF c \in Range(df.columns) THEN df.columns ELSE Append(df.columns, c),
     rows |-> [i \in DOMAIN df.rows |->
                 [k \in DOMAIN df.rows[i] \cup {c} |->
                    IF k = c THEN v[i] ELSE df.rows[i][k]]]]

\* for c in col_order_target: if c not in df.columns: df[c] = pd.NA
RECURSIVE AddMissing(_, _)
AddMissing(df, cols) ==
    IF cols = <<>> THEN df
    ELSE AddMissing(IF Head(cols) \in Range(df.columns) THEN df
                    ELSE SetColumn(df, Head(cols), [i \in DOMAIN df.rows |-> NA]),
                    Tail(cols))

\* .dt on a Series of dtype object raises AttributeError
harmonizar_rubricas_2299(df_rb_2299) ==
    IF ~HasColumns(df_rb_2299, {"Data Desligamento"}) THEN Raised("KeyError")
    ELSE LET dates == to_datetime([i \in DOMAIN df_rb_2299.rows |->
                                      df_rb_2299.rows[i]["Data Desligamento"]])
         IN  IF dates.dtype = "object" THEN Raised("AttributeError")
             ELSE Returned(Project(
                     AddMissing(SetColumn(df_rb_2299, "Período Apuração",
                                          [i \in DOMAIN dates.values |->
                                              strftime_Y_m(dates.values[i])]),
                                col_order_target),
                     col_order_target))

-----------------------------------------------------------------------------
(* The Streamlit script: the three upload steps *)

EmptyDict == [k \in {} |-> <<>>]

\* the columns of the tables of dfs, each once, in order of first appearance
RECURSIVE UnionColumns(_, _)
UnionColumns(dfs, acc) ==
    IF dfs = <<>> THEN acc
    ELSE UnionColumns(Tail(dfs),
            acc \o SelectSeq(Head(dfs).columns, LAMBDA c : c \notin Range(acc)))

\* pd.concat(dfs, ignore_index=True)
concat(dfs) ==
    LET cols == UnionColumns(dfs, <<>>)
        fill(row) == [c \in Range(cols) |-> IF c \in DOMAIN row THEN row[c] ELSE NaN]
    IN  [columns |-> cols,
         rows |-> Flatten([d \in DOMAIN dfs |->
                     [i \in DOMAIN dfs[d].rows |-> fill(dfs[d].rows[i])]])]

\* tmp, tmp3, tmp2 as the steps create them
Tmp1010 == [k \in {"CABECALHO_1010", "RUBRICAS_1010"} |-> <<>>]
Tmp2299 == [k \in {"CABECALHO_2299", "DEMONSTRATIVO_2299", "RUBRICAS_2299"} |-> <<>>]
Tmp1200 == [k \in {"CABECALHO_1200", "DEMONSTRATIVO_1200", "RUBRICAS_1200"} |-> <<>>]

\* an append that drops what earlier files gave
AppendAll_only_last(t, res) == [k \in DOMAIN t |-> <<res[k]>>]

\* for k in tmp: tmp[k].append(res[k])
AppendAll(t, res) == [k \in DOMAIN t |-> Append(t[k], res[k])]

\* {k: pd.concat(v, ignore_index=True) for k, v in tmp.items() if v}
ConcatAll(t) == [k \in {n \in DOMAIN t : t[n] # <<>>} |-> concat(t[k])]

\* the parser a step calls
ParserOf(step, f) ==
    CASE step = "passo1" -> Parser1010_parse(f.data, f.name)
      [] step = "passo2" -> Parser2299_parse(f.data, f.name)
      [] step = "passo3" -> Parser1200_parse(f.data, f.name)

\* the event code a step accepts
CodeOf(step) ==
    CASE step = "passo1" -> S_1010
      [] step = "passo2" -> S_2299
      [] step = "passo3" -> S_1200

\* whether a loop iteration with this event code goes on to the parser
Dispatches(step, event_code) == event_code = CodeOf(step)

\* one iteration of a step's loop `for f in files`: detect, skip or parse, append
LoopBody(step, f) ==
    LET event_code == detect_event_code(f.data)
    IN  /\ idx' = idx + 1
        /\ IF ~Dispatches(step, event_code)
           THEN /\ tmp' = tmp
                /\ iter' = [step |-> step, file |-> f, event_code |-> event_code,
                            called |-> FALSE, outcome |-> "warning"]
           ELSE LET res == ParserOf(step, f)
                IN  /\ tmp' = IF res.ok THEN AppendAll(tmp, res.value) ELSE tmp
                    /\ iter' = [step |-> step, file |-> f, event_code |-> event_code,
                                called |-> TRUE,
                                outcome |-> IF res.ok THEN "parsed" ELSE res.error]

\* lines 450-460
Passo1_File ==
    /\ pc = "passo1" /\ idx < Len(files_1010)
    /\ LoopBody("passo1", files_1010[idx + 1])
    /\ UNCHANGED <<files_1010, files_2299, files_1200, pc, parsed_1010, parsed_2299,
                   parsed_1200, arg, ret, consolidado>>

\* line 461, then lines 480-482
Passo1_End ==
    /\ pc = "passo1" /\ idx = Len(files_1010)
    /\ parsed_1010' = ConcatAll(tmp)
    /\ pc' = "passo2" /\ idx' = 0 /\ tmp' = Tmp2299
    /\ UNCHANGED <<files_1010, files_2299, files_1200, parsed_2299, parsed_1200, iter,
                   arg, ret, consolidado>>

\* lines 483-493
Passo2_File ==
    /\ pc = "passo2" /\ idx < Len(files_2299)
    /\ LoopBody("passo2", files_2299[idx + 1])
    /\ UNCHANGED <<files_1010, files_2299, files_1200, pc, parsed_1010, parsed_2299,
                   parsed_1200, arg, ret, consolidado>>

\* line 494, then lines 510-516
Passo2_End ==
    /\ pc = "passo2" /\ idx = Len(files_2299)
    /\ parsed_2299' = ConcatAll(tmp)
    /\ pc' = "passo3" /\ idx' = 0 /\ tmp' = Tmp1200
    /\ UNCHANGED <<files_1010, files_2299, files_1200, parsed_1010, parsed_1200, iter,
                   arg, ret, consolidado>>

\* lines 517-527
Passo3_File ==
    /\ pc = "passo3" /\ idx < Len(files_1200)
    /\ LoopBody("passo3", files_1200[idx + 1])
    /\ UNCHANGED <<files_1010, files_2299, files_1200, pc, parsed_1010, parsed_2299,
                   parsed_1200, arg, ret, consolidado>>

\* line 528
Passo3_End ==
    /\ pc = "passo3" /\ idx = Len(files_1200)
    /\ parsed_1200' = ConcatAll(tmp)
    /\ pc' = "fim" /\ idx' = 0 /\ tmp' = EmptyDict
    /\ UNCHANGED <<files_1010, files_2299, files_1200, parsed_1010, parsed_2299, iter,
                   arg, ret, consolidado>>

\* the names of the tables of each step, in the order the dicts hold them
Names1010 == <<"CABECALHO_1010", "RUBRICAS_1010">>
Names2299 == <<"CABECALHO_2299", "DEMONSTRATIVO_2299", "RUBRICAS_2299">>
Names1200 == <<"CABECALHO_1200", "DEMONSTRATIVO_1200", "RUBRICAS_1200">>

\* if parsed_1010 and parsed_1200 and parsed_2299
AllParsed == parsed_1010 # EmptyDict /\ parsed_1200 # EmptyDict /\ parsed_2299 # EmptyDict

\* d[k] = v
SetItem(d, k, v) == [n \in DOMAIN d \cup {k} |-> IF n = k THEN v ELSE d[n]]

\* lines 539-548: df_joined, or the exception that ends the script run
Enrich(p1010, p1200, p2299) ==
    LET df_2299_rb == harmonizar_rubricas_2299(p2299["RUBRICAS_2299"])
    IN  IF ~df_2299_rb.ok THEN df_2299_rb
        ELSE join_rubricas(concat(<<p1200["RUBRICAS_1200"], df_2299_rb.value>>),
                           p1010["RUBRICAS_1010"])

\* lines 537-555
Enriquece ==
    /\ pc = "fim"
    /\ IF ~AllParsed
       THEN pc' = "consolidado" /\ UNCHANGED parsed_1200
       ELSE LET df_joined == Enrich(parsed_1010, parsed_1200, parsed_2299)
            IN  IF ~df_joined.ok
                THEN pc' = "erro" /\ UNCHANGED parsed_1200
                ELSE /\ pc' = "consolidado"
                     /\ parsed_1200' = SetItem(parsed_1200, "RUBRICAS_1200_2299_ENRIQUECIDO",
                                               df_joined.value)
    /\ UNCHANGED <<files_1010, files_2299, files_1200, idx, tmp, parsed_1010, parsed_2299,
                   iter, arg, ret, consolidado>>

NoExport == [offered |-> FALSE, info |-> FALSE, sheets |-> <<>>]

\* the sheets of the workbook, in the order they are written; every table
\* name has at most 31 characters, so name[:31] is the name
Sheets ==
    SelectSeq(Names1010, LAMBDA n : n \in DOMAIN parsed_1010)
    \o SelectSeq(Names2299, LAMBDA n : n \in DOMAIN parsed_2299)
    \o (IF "RUBRICAS_1200_2299_ENRIQUECIDO" \in DOMAIN parsed_1200
        THEN <<"RUBRICAS_1200_2299">> ELSE <<>>)
    \o SelectSeq(Names1200, LAMBDA n : n \in DOMAIN parsed_1200)

\* lines 561-595
Consolidado ==
    /\ pc = "consolidado"
    /\ consolidado' = IF AllParsed
                      THEN [offered |-> TRUE, info |-> FALSE, sheets |-> Sheets]
                      ELSE [offered |-> FALSE, info |-> TRUE, sheets |-> <<>>]
    /\ pc' = "pronto"
    /\ UNCHANGED <<files_1010, files_2299, files_1200, idx, tmp, parsed_1010, parsed_2299,
                   parsed_1200, iter, arg, ret>>

Next ==
    \/ Passo1_File \/ Passo1_End
    \/ Passo2_File \/ Passo2_End
    \/ Passo3_File \/ Passo3_End
    \/ Enriquece \/ Consolidado

-----------------------------------------------------------------------------
(* Uploaded documents *)

\* text, written as its characters
T_ID1 == <<"I", "D", "1">>
T_IDS1010 == <<"I", "D", "S", "-", "1", "0", "1", "0">>
T_S12 == <<"S", "-", "1", "2">>

WithId(v) == [a \in {"Id"} |-> v]

Leaf(tag, text) == Elem(tag, NoAttrs, text, <<>>)
Node(tag, kids) == Elem(tag, NoAttrs, <<>>, kids)

\* <eSocial> around an event element, as the eSocial layouts have it
Wrap(evt) == Node("eSocial", <<evt>>)

\* one inclusao / alteracao / exclusao element of S-1010
ActionElem(kind, code, hasDados) ==
    Node(kind,
         <<Node("ideRubrica",
                <<Leaf("codRubr", code), Leaf("ideTabRubr", <<"T", "1">>),
                  Leaf("iniValid", <<"2", "0", "2", "4", "-", "0", "1">>)>>)>>
         \o (IF hasDados
             THEN <<Node("dadosRubrica",
                         <<Leaf("dscRubr", <<"d">> \o code), Leaf("natRubr", <<"1", "0", "0", "0">>),
                           Leaf("tpRubr", <<"1">>), Leaf("codIncCP", <<"1", "1">>),
                           Leaf("codIncIRRF", <<"x">>), Leaf("codIncFGTS", <<"0", "0">>)>>)>>
             ELSE <<>>))

\* an evtTabRubrica element with the given action elements
Evt1010(nrInsc, acts) ==
    Elem("evtTabRubrica", WithId(T_ID1), <<>>,
         <<Node("ideEvento", <<Leaf("tpAmb", <<"1">>), Leaf("procEmi", <<"1">>),
                               Leaf("verProc", <<"v">>)>>),
           Node("ideEmpregador", <<Leaf("tpInsc", <<"1">>), Leaf("nrInsc", nrInsc)>>),
           Node("infoRubrica", acts)>>)

\* one itensRemun / detVerbas element
ItemElem(tag, code) ==
    Node(tag, <<Leaf("codRubr", code), Leaf("ideTabRubr", <<"T", "1">>),
                Leaf("qtdRubr", <<"1", ".", "5", "0">>), Leaf("vrRubr", <<"0", "7">>),
                Leaf("indApurIR", <<"0">>)>>)

\* one ideEstabLot element: its location code, a registration number and items
EstabElem(matricula, items) ==
    Node("ideEstabLot",
         <<Leaf("tpInsc", <<"1">>), Leaf("codLotacao", <<"L", "1">>),
           Node("remunPerApur", <<Leaf("matricula", matricula)>> \o items)>>)

\* one dmDev element
DmDevElem(attrs, ideDmDev, estabs) ==
    Elem("dmDev", attrs, <<>>,
         <<Leaf("ideDmDev", ideDmDev), Leaf("codCateg", <<"1", "0", "1">>),
           Node("infoPerApur", estabs)>>)

\* an evtRemun / evt1200 element
Evt1200(tag, cpf, dms) ==
    Elem(tag, WithId(T_ID1), <<>>,
         <<Node("ideEvento", <<Leaf("indRetif", <<"1">>),
                               Leaf("perApur", <<"2", "0", "2", "4", "-", "0", "3">>),
                               Leaf("tpAmb", <<"1">>)>>),
           Node("ideTrabalhador", <<Leaf("cpfTrab", cpf)>>)>> \o dms)

\* an evtDeslig element
Evt2299(cpf, dms) ==
    Elem("evtDeslig", WithId(T_ID1), <<>>,
         <<Node("ideEvento", <<Leaf("indRetif", <<"1">>), Leaf("tpAmb", <<"1">>)>>),
           Node("ideVinculo", <<Leaf("cpfTrab", cpf)>>),
           Node("infoDeslig",
                <<Leaf("mtvDeslig", <<"0", "2">>),
                  Leaf("dtDeslig", <<"2", "0", "2", "4", "-", "0", "3", "-", "1", "5">>),
                  Node("verbasResc", dms)>>)>>)

MaxNodes == 2

DetectTags == {"eSocial", "evtTabRubrica", "evtRemun", "evt1200", "evtDeslig"}
DetectAttrs == {NoAttrs, WithId(T_ID1), WithId(T_IDS1010), WithId(T_S12)}
RootAttrs == {NoAttrs, WithId(T_IDS1010)}

\* the sequences of elements with n elements in all, over DetectTags and DetectAttrs
RECURSIVE Forests(_)
Forests(n) ==
    IF n = 0 THEN {<<>>}
    ELSE UNION {{<<Elem(t, a, <<>>, f1)>> \o f2 :
                    t \in DetectTags, a \in DetectAttrs,
                    f1 \in Forests(i), f2 \in Forests(n - 1 - i)} : i \in 0..(n - 1)}

\* documents with a root and at most m elements below it
DetectRoots(m) ==
    UNION {{Elem(t, a, <<>>, f) : t \in DetectTags, a \in RootAttrs, f \in Forests(n)} :
             n \in 0..m}

\* the well-formed byte buffers of these documents
DetectBuffers(m) == {[wf |-> TRUE, root |-> r] : r \in DetectRoots(m)}

File(name, data) == [name |-> name, data |-> data]

NoIter ==
    [step |-> "", file |-> File(<<>>, [wf |-> FALSE, root |-> Elem("", NoAttrs, <<>>, <<>>)]),
     event_code |-> <<>>, called |-> FALSE, outcome |-> ""]

NoCall == [fn |-> "", a |-> <<>>, b |-> <<>>]
NotReturned == [ok |-> FALSE, error |-> "not called", value |-> <<>>]

\* the script starts at step 1 with nothing parsed
Start ==
    /\ pc = "passo1" /\ idx = 0 /\ tmp = Tmp1010
    /\ parsed_1010 = EmptyDict /\ parsed_2299 = EmptyDict /\ parsed_1200 = EmptyDict
    /\ iter = NoIter /\ arg = NoCall /\ ret = NotReturned
    /\ consolidado = NoExport

\* one arbitrary well-formed document, uploaded in each of the three steps
InitDetect ==
    /\ \E d \in DetectBuffers(MaxNodes) :
          /\ files_1010 = <<File(<<"f">>, d)>>
          /\ files_2299 = <<File(<<"f">>, d)>>
          /\ files_1200 = <<File(<<"f">>, d)>>
    /\ Start

SpecDetect == InitDetect /\ [][Next]_vars

-----------------------------------------------------------------------------
(* Direct calls of the extractors on families of documents *)

MaxActions == 2
MaxDm == 2
MaxItems == 2
MaxPad == 12

SeqsUpTo(S, n) == UNION {[1..m -> S] : m \in 0..n}

Codes == {<<"A">>, <<"B">>}
DmIds == {<<"d", "1">>, <<"d", "2">>}
Mats == {<<"4", "2">>, <<"7">>}
T_CPF == <<"1", "2", "3">>
Name1 == <<"a", ".", "x", "m", "l">>
Name2 == <<"b", ".", "x", "m", "l">>

\* identifiers and registration numbers to pad: up to MaxPad digits, bare,
\* signed or surrounded by blanks
PadTexts ==
    {T_CPF, <<"4", "2">>}
    \cup {Rep("1", n) : n \in 0..MaxPad}
    \cup {<<"-">> \o Rep("1", n) : n \in 0..MaxPad}
    \cup {<<" ">> \o Rep("1", n) \o <<" ">> : n \in 0..MaxPad}

ActionChoices ==
    {ActionElem(k, c, h) : k \in Range(Actions1010), c \in Codes, h \in BOOLEAN}

\* n line items, with alternating rate codes
Items(tag, n) ==
    [j \in 1..n |-> ItemElem(tag, IF j % 2 = 1 THEN <<"A">> ELSE <<"B">>)]

\* dmDev elements with one establishment block
DmChoices(tag) ==
    {DmDevElem(NoAttrs, d, <<EstabElem(m, Items(tag, n))>>) :
        d \in DmIds, m \in Mats, n \in 0..MaxItems}

\* dmDev elements with a second establishment block, with id / Id attributes,
\* or without any establishment block
DmOddChoices(tag) ==
    {DmDevElem(NoAttrs, <<"d", "1">>,
               <<EstabElem(<<"4", "2">>, Items(tag, n)), EstabElem(<<"7">>, Items(tag, 1))>>) :
        n \in 0..MaxItems}
    \cup {DmDevElem(a, <<"d", "1">>, <<EstabElem(<<"7">>, Items(tag, 1))>>) :
            a \in {[k \in {"id"} |-> <<"x">>], WithId(<<"X">>), [k \in {"id"} |-> <<>>],
                   [k \in {"id", "Id"} |-> IF k = "id" THEN <<"x">> ELSE <<"X">>]}}
    \cup {DmDevElem(NoAttrs, <<"d", "1">>, <<>>)}

Roots1010 ==
    {Wrap(Evt1010(T_CPF, acts)) : acts \in SeqsUpTo(ActionChoices, MaxActions)}
    \cup {Evt1010(T_CPF, acts) : acts \in SeqsUpTo(ActionChoices, 1)}
    \cup {Wrap(Evt1010(t, <<ActionElem("inclusao", <<"A">>, TRUE)>>)) : t \in PadTexts}

Roots1200 ==
    {Wrap(Evt1200(tag, T_CPF, dms)) :
        tag \in {"evtRemun", "evt1200"}, dms \in SeqsUpTo(DmChoices("itensRemun"), MaxDm)}
    \cup {Wrap(Evt1200("evtRemun", T_CPF, <<dm>>)) : dm \in DmOddChoices("itensRemun")}
    \cup {Evt1200("evtRemun", T_CPF, dms) : dms \in SeqsUpTo(DmChoices("itensRemun"), 1)}
    \cup {Wrap(Evt1200("evtRemun", t,
                       <<DmDevElem(NoAttrs, <<"d", "1">>,
                                   <<EstabElem(t, Items("itensRemun", 1))>>)>>)) :
            t \in PadTexts}

Roots2299 ==
    {Wrap(Evt2299(T_CPF, dms)) : dms \in SeqsUpTo(DmChoices("detVerbas"), MaxDm)}
    \cup {Wrap(Evt2299(T_CPF, <<dm>>)) : dm \in DmOddChoices("detVerbas")}
    \cup {Evt2299(T_CPF, dms) : dms \in SeqsUpTo(DmChoices("detVerbas"), 1)}
    \cup {Wrap(Evt2299(t, <<DmDevElem(NoAttrs, <<"d", "1">>,
                                      <<EstabElem(t, Items("detVerbas", 1))>>)>>)) :
            t \in PadTexts}

WellFormed(root) == [wf |-> TRUE, root |-> root]

Call(fn, a, b) == [fn |-> fn, a |-> a, b |-> b]

\* the script is not running: nothing uploaded, nothing parsed
Idle ==
    /\ files_1010 = <<>> /\ files_2299 = <<>> /\ files_1200 = <<>>
    /\ pc = "fim" /\ idx = 0 /\ tmp = EmptyDict
    /\ parsed_1010 = EmptyDict /\ parsed_2299 = EmptyDict /\ parsed_1200 = EmptyDict
    /\ iter = NoIter /\ consolidado = NoExport

InitParse ==
    /\ Idle
    /\ ret = NotReturned
    /\ \/ \E r \in Roots1010 : arg = Call("Parser1010.parse", WellFormed(r), Name1)
       \/ \E r \in Roots1200 : arg = Call("Parser1200.parse", WellFormed(r), Name1)
       \/ \E r \in Roots2299 : arg = Call("Parser2299.parse", WellFormed(r), Name2)

UnchangedScript ==
    UNCHANGED <<files_1010, files_2299, files_1200, pc, idx, tmp, parsed_1010,
                parsed_2299, parsed_1200, iter, consolidado>>

Call_Parser1010 ==
    /\ arg.fn = "Parser1010.parse" /\ ret = NotReturned
    /\ ret' = Parser1010_parse(arg.a, arg.b)
    /\ UNCHANGED arg /\ UnchangedScript

Call_Parser1200 ==
    /\ arg.fn = "Parser1200.parse" /\ ret = NotReturned
    /\ ret' = Parser1200_parse(arg.a, arg.b)
    /\ UNCHANGED arg /\ UnchangedScript

Call_Parser2299 ==
    /\ arg.fn = "Parser2299.parse" /\ ret = NotReturned
    /\ ret' = Parser2299_parse(arg.a, arg.b)
    /\ UNCHANGED arg /\ UnchangedScript

NextParse == Call_Parser1010 \/ Call_Parser1200 \/ Call_Parser2299

SpecParse == InitParse /\ [][NextParse]_vars

-----------------------------------------------------------------------------
(* Direct calls of join_rubricas on small tables *)

MaxLeft == 2
MaxRight == 2

\* the columns of RUBRICAS_1200 and of RUBRICAS_1010, as the parsers name them
Columns1200_RUB == [i \in DOMAIN Keys1200_RUB |-> Parser1200_COL_RUB[Keys1200_RUB[i]]]
Columns1010_RUB == [i \in DOMAIN Keys1010_RUB |-> Parser1010_COL_RUB[Keys1010_RUB[i]]]

\* a line-item row with the given rate code and declaration id
LeftRow(code, id) ==
    [c \in Range(Columns1200_RUB) |->
        CASE c = "Código Rubrica" -> Str(code)
          [] c = "ID Demonstrativo" -> Str(id)
          [] c = "Origem Arquivo" -> Str(Name1)
          [] c \in NumColsRb -> Num(<<"1">>)
          [] OTHER -> Str(<<"x">>)]

\* a rate-detail row with the given rate code and description
RightRow(code, dsc) ==
    [c \in Range(Columns1010_RUB) |->
        CASE c = "Código Rubrica" -> Str(code)
          [] c = "Descrição Rubrica" -> Str(dsc)
          [] c = "Origem Arquivo" -> Str(Name2)
          [] c \in NumCols1010 -> NaN
          [] OTHER -> Str(<<"y">>)]

LeftTables ==
    {[columns |-> Columns1200_RUB, rows |-> rs] :
        rs \in SeqsUpTo({LeftRow(c, d) : c \in Codes, d \in DmIds}, MaxLeft)}

RightTables ==
    {[columns |-> Columns1010_RUB, rows |-> rs] :
        rs \in SeqsUpTo({RightRow(c, d) : c \in Codes, d \in {<<"p">>, <<"q">>}}, MaxRight)}

InitJoin ==
    /\ Idle
    /\ ret = NotReturned
    /\ \E L \in LeftTables, R \in RightTables : arg = Call("join_rubricas", L, R)

Call_join_rubricas ==
    /\ arg.fn = "join_rubricas" /\ ret = NotReturned
    /\ ret' = join_rubricas(arg.a, arg.b)
    /\ UNCHANGED arg /\ UnchangedScript

NextJoin == Call_join_rubricas

SpecJoin == InitJoin /\ [][NextJoin]_vars

-----------------------------------------------------------------------------
(* Direct calls of harmonizar_rubricas_2299 on small tables *)

MaxRows == 2

Columns2299_RUB == [i \in DOMAIN Keys2299_RUB |-> Parser2299_COL_RUB[Keys2299_RUB[i]]]

T_2024_03_15 == <<"2", "0", "2", "4", "-", "0", "3", "-", "1", "5">>
T_2023_12_01 == <<"2", "0", "2", "3", "-", "1", "2", "-", "0", "1">>
T_Feb30 == <<"2", "0", "2", "4", "-", "0", "2", "-", "3", "0">>
T_Month13 == <<"2", "0", "2", "4", "-", "1", "3", "-", "0", "1">>
T_9999 == <<"9", "9", "9", "9", "-", "1", "2", "-", "3", "1">>
T_abc == <<"a", "b", "c">>
T_15_03_2024 == <<"1", "5", "/", "0", "3", "/", "2", "0", "2", "4">>
T_Minus3h == T_2024_03_15 \o <<"T", "1", "0", ":", "0", "0", ":", "0", "0", "-", "0", "3", ":", "0", "0">>
T_Minus2h == T_2023_12_01 \o <<"T", "0", "0", ":", "3", "0", ":", "0", "0", "-", "0", "2", ":", "0", "0">>

\* the termination dates of one table are written in one format; some are
\* empty or no date at all
DateFormats ==
    {{T_2024_03_15, T_2023_12_01, T_Feb30, T_Month13, T_9999, <<>>, T_abc},
     {T_15_03_2024, <<>>, T_abc},
     {T_Minus3h, T_Minus2h, <<>>, T_abc}}

\* a termination line-item row with the given rate code and termination date
RowRb(code, dt) ==
    [c \in Range(Columns2299_RUB) |->
        CASE c = "Código Rubrica" -> Str(code)
          [] c = "Data Desligamento" -> Str(dt)
          [] c = "Origem Arquivo" -> Str(Name2)
          [] c \in NumColsRb -> Num(<<"1">>)
          [] OTHER -> Str(<<"x">>)]

TablesRb ==
    UNION {{[columns |-> Columns2299_RUB, rows |-> rs] :
               rs \in SeqsUpTo({RowRb(c, d) : c \in Codes, d \in F}, MaxRows)} :
             F \in DateFormats}

InitHarm ==
    /\ Idle
    /\ ret = NotReturned
    /\ \E T \in TablesRb : arg = Call("harmonizar_rubricas_2299", T, <<>>)

\* a call of harmonizar_rubricas_2299; where one pandas raises AttributeError
\* at .dt, a pandas that refuses mixed offsets raises ValueError in to_datetime
Call_harmonizar_rubricas_2299 ==
    /\ arg.fn = "harmonizar_rubricas_2299" /\ ret = NotReturned
    /\ LET r == harmonizar_rubricas_2299(arg.a)
       IN  ret' \in IF ~r.ok /\ r.error = "AttributeError"
                    THEN {r, Raised("ValueError")} ELSE {r}
    /\ UNCHANGED arg /\ UnchangedScript

NextHarm == Call_harmonizar_rubricas_2299

SpecHarm == InitHarm /\ [][NextHarm]_vars

-----------------------------------------------------------------------------
(* The script on uploads drawn from a few files *)

MaxFiles == 3

\* a rate table with an insert (with data) and a delete (without)
F_rubricas ==
    File(<<"r">>, WellFormed(Wrap(Evt1010(T_CPF,
        <<ActionElem("inclusao", <<"A">>, TRUE), ActionElem("exclusao", <<"B">>, FALSE)>>))))

\* a termination with one declaration of one line item
F_deslig ==
    File(<<"d">>, WellFormed(Wrap(Evt2299(T_CPF,
        <<DmDevElem(NoAttrs, <<"d", "1">>, <<EstabElem(<<"7">>, Items("detVerbas", 1))>>)>>))))

\* a compensation with one declaration of two line items
F_remun ==
    File(<<"m">>, WellFormed(Wrap(Evt1200("evtRemun", T_CPF,
        <<DmDevElem(NoAttrs, <<"d", "2">>, <<EstabElem(<<"4", "2">>, Items("itensRemun", 2))>>)>>))))

\* a damaged copy of the rate table: bytes that etree.fromstring rejects
F_truncated1010 == File(<<"x">>, [wf |-> FALSE, root |-> F_rubricas.data.root])

\* another event, whose Id attribute embeds "S-1010"
F_other == File(<<"o">>, WellFormed(Wrap(Elem("evtAdmissao", WithId(T_IDS1010), <<>>, <<>>))))

Files == {F_rubricas, F_deslig, F_remun, F_truncated1010, F_other}

Init ==
    /\ \E la \in 0..MaxFiles, lb \in 0..MaxFiles, lc \in 0..MaxFiles :
          /\ la + lb + lc <= MaxFiles
          /\ files_1010 \in [1..la -> Files]
          /\ files_2299 \in [1..lb -> Files]
          /\ files_1200 \in [1..lc -> Files]
    /\ Start

Spec == Init /\ [][Next]_vars

-----------------------------------------------------------------------------
(* The script on uploads that reach the enrichment *)

MaxDeslig == 2

\* the element e with the text of its elements named tag replaced
RECURSIVE SetText(_, _, _)
SetText(e, tag, text) ==
    [tag |-> e.tag, attrs |-> e.attrs,
     text |-> IF e.tag = tag THEN text ELSE e.text,
     kids |-> [i \in DOMAIN e.kids |-> SetText(e.kids[i], tag, text)]]

\* the termination F_deslig with another termination date
DesligEm(name, dtDeslig) ==
    File(name, WellFormed(SetText(F_deslig.data.root, "dtDeslig", dtDeslig)))

F_deslig_3h == DesligEm(<<"d", "3">>, T_Minus3h)
F_deslig_2h == DesligEm(<<"d", "2">>, T_Minus2h)

\* a rate table, a compensation and terminations whose dates are all written
\* with a time and a UTC offset; some uploads are files of another event
InitEnrich ==
    /\ files_1010 \in SeqsUpTo({F_rubricas, F_other}, 1)
    /\ files_2299 \in SeqsUpTo({F_deslig_3h, F_deslig_2h, F_remun}, MaxDeslig)
    /\ files_1200 \in SeqsUpTo({F_remun, F_deslig}, 1)
    /\ Start

SpecEnrich == InitEnrich /\ [][Next]_vars

-----------------------------------------------------------------------------
(* Properties of the classifier and of the dispatch *)

\* every element of a document, the root included, in document order
AllElements(root) == <<root>> \o Descendants(root)

\* an element with one of these names occurs in the document, root included
Occurs(root, names) == \E i \in DOMAIN AllElements(root) : AllElements(root)[i].tag \in names

Uploaded == Range(files_1010) \cup Range(files_2299) \cup Range(files_1200)

\* the marker element(s) of the extractor a step calls
MarkerOf(step) ==
    CASE step = "passo1" -> {"evtTabRubrica"}
      [] step = "passo2" -> {"evtDeslig"}
      [] step = "passo3" -> {"evtRemun", "evt1200"}

\* C1: a buffer that is not well-formed XML classifies as "UNKNOWN", and the
\* loop iteration of any upload step that meets it warns and goes on to the
\* next file without calling the step's parser or touching the step's tables.
C1_MalformedIsUnknownAndSkipped ==
    /\ \A f \in Uploaded : ~f.data.wf => detect_event_code(f.data) = UNKNOWN
    /\ (iter.step # "" /\ ~iter.file.data.wf) =>
          /\ iter.event_code = UNKNOWN
          /\ ~iter.called
          /\ iter.outcome = "warning"
          /\ idx = 1 => \A k \in DOMAIN tmp : tmp[k] = <<>>

\* C1 witness: every one of the three steps has met a damaged file (step 3
\* last) and nothing was parsed
C1_Witness ==
    /\ iter.step = "passo3" /\ ~iter.file.data.wf
    /\ files_1010 # <<>> /\ ~files_1010[1].data.wf
    /\ files_2299 # <<>> /\ ~files_2299[1].data.wf
    /\ parsed_1010 = EmptyDict /\ parsed_2299 = EmptyDict

\* C2 as claimed: a well-formed document in which evtTabRubrica occurs
\* anywhere, root included, classifies as S-1010; otherwise one in which
\* evtRemun or evt1200 occurs anywhere, root included, classifies as S-1200.
C2_MarkerAnywhereDecides ==
    (iter.step # "" /\ iter.file.data.wf) =>
        LET root == iter.file.data.root
        IN  /\ Occurs(root, {"evtTabRubrica"}) => iter.event_code = S_1010
            /\ (~Occurs(root, {"evtTabRubrica"}) /\ Occurs(root, {"evtRemun", "evt1200"}))
                  => iter.event_code = S_1200

\* an element with one of these names occurs below the root
OccursBelow(root, names) ==
    \E i \in DOMAIN Descendants(root) : Descendants(root)[i].tag \in names

\* C3 as claimed: a well-formed document that contains evtDeslig (here: below
\* its root, where the classifier looks) and no evtTabRubrica, evtRemun or
\* evt1200 anywhere classifies as S-2299, whatever its Id attributes are.
C3_DesligDecidesWhateverIds ==
    (iter.step # "" /\ iter.file.data.wf) =>
        LET root == iter.file.data.root
        IN  (/\ OccursBelow(root, {"evtDeslig"})
             /\ ~Occurs(root, {"evtTabRubrica", "evtRemun", "evt1200"}))
                => iter.event_code = S_2299

\* C4 as claimed: a document whose event code comes from the Id fallback is
\* never handed to a parser, and a parser is only called on a document that
\* contains its marker element.
C4_FallbackNeverDispatched ==
    (iter.step # "" /\ iter.file.data.wf) =>
        /\ Rule(iter.file.data.root) = "Id" => ~iter.called
        /\ iter.called => Occurs(iter.file.data.root, MarkerOf(iter.step))

-----------------------------------------------------------------------------
(* Properties of the extractors *)

Returns(fn) == arg.fn = fn /\ ret # NotReturned

\* the first element below the root with one of these names
FirstOf(root, names) ==
    Descendants(root)[CHOOSE i \in DOMAIN Descendants(root) :
        /\ Descendants(root)[i].tag \in names
        /\ \A j \in 1..(i - 1) : Descendants(root)[j].tag \notin names]

\* the elements below e with one of these names, in document order
Below(e, names) == SelectSeq(Descendants(e), LAMBDA d : d.tag \in names)

\* how many rows of a table hold the text s in column c
CountRows(df, c, s) == Cardinality({i \in DOMAIN df.rows : df.rows[i][c] = Str(s)})

Missing(cell) == cell = NaN \/ cell = Str(<<>>)

DataCols1010 ==
    {"Descrição Rubrica", "Natureza Rubrica", "Tipo Rubrica", "Incidência INSS",
     "Incidência IRRF", "Incidência FGTS"}

\* the sum of the numbers of a sequence
RECURSIVE Sum(_)
Sum(ns) == IF ns = <<>> THEN 0 ELSE Head(ns) + Sum(Tail(ns))

\* C5 as claimed: on a document containing an evtTabRubrica element (below its
\* root, where the parser looks) with k >= 0 action elements, each holding an ideRubrica, Parser1010.parse returns, with
\* exactly k rows in RUBRICAS_1010, as many rows of each action kind as there
\* are action elements of that kind, and empty or missing data-block fields
\* in every row when no action element has a dadosRubrica.
C5_OneRowPerAction ==
    (/\ Returns("Parser1010.parse")
     /\ OccursBelow(arg.a.root, {"evtTabRubrica"})
     /\ \A i \in DOMAIN Below(FirstOf(arg.a.root, {"evtTabRubrica"}), Range(Actions1010)) :
           Below(Below(FirstOf(arg.a.root, {"evtTabRubrica"}), Range(Actions1010))[i],
                 {"ideRubrica"}) # <<>>)
    => LET evt == FirstOf(arg.a.root, {"evtTabRubrica"})
           acts == Below(evt, Range(Actions1010))
       IN  /\ ret.ok
           /\ Len(ret.value.RUBRICAS_1010.rows) = Len(acts)
           /\ \A a \in Range(Actions1010) :
                 CountRows(ret.value.RUBRICAS_1010, "Ação", ActionText(a))
                    = Len(Below(evt, {a}))
           /\ (\A i \in DOMAIN acts : Below(acts[i], {"dadosRubrica"}) = <<>>)
                 => \A i \in DOMAIN ret.value.RUBRICAS_1010.rows :
                       \A c \in DataCols1010 : Missing(ret.value.RUBRICAS_1010.rows[i][c])

\* the table names of the compensation or termination parser
Suffix_(fn) == IF fn = "Parser1200.parse" THEN "1200" ELSE "2299"
Cabecalho(fn) == ret.value["CABECALHO_" \o Suffix_(fn)]
Demonstrativo(fn) == ret.value["DEMONSTRATIVO_" \o Suffix_(fn)]
Rubricas(fn) == ret.value["RUBRICAS_" \o Suffix_(fn)]
MarkerOfParser(fn) ==
    IF fn = "Parser1200.parse" THEN {"evtRemun", "evt1200"} ELSE {"evtDeslig"}
ItemOfParser(fn) == IF fn = "Parser1200.parse" THEN "itensRemun" ELSE "detVerbas"

\* the line-item elements inside the establishment blocks of one dmDev
ItemsInEstabs(dm, item) ==
    SelectSeq(Below(dm, {item}),
              LAMBDA it : \E i \in DOMAIN Below(dm, {"ideEstabLot"}) :
                             \E j \in DOMAIN Below(Below(dm, {"ideEstabLot"})[i], {item}) :
                                Below(Below(dm, {"ideEstabLot"})[i], {item})[j] = it)

\* C6 as claimed: on a document containing the marker element (below its root,
\* where the parsers look) with d >= 0 dmDev elements, dmDev i holding n_i >= 0 line-item elements inside its
\* establishment block(s), the parser returns a header of 1 row, a declaration
\* table of d rows and a line-item table of n_1 + ... + n_d rows.
C6_RowsPerDeclarationAndItem ==
    \A fn \in {"Parser1200.parse", "Parser2299.parse"} :
        (/\ Returns(fn)
         /\ OccursBelow(arg.a.root, MarkerOfParser(fn))
         /\ \A i \in DOMAIN Below(FirstOf(arg.a.root, MarkerOfParser(fn)), {"dmDev"}) :
               Below(Below(FirstOf(arg.a.root, MarkerOfParser(fn)), {"dmDev"})[i],
                     {"ideEstabLot"}) # <<>>)
        => LET dms == Below(FirstOf(arg.a.root, MarkerOfParser(fn)), {"dmDev"})
           IN  /\ ret.ok
               /\ Len(Cabecalho(fn).rows) = 1
               /\ Len(Demonstrativo(fn).rows) = Len(dms)
               /\ Len(Rubricas(fn).rows)
                     = Sum([i \in DOMAIN dms |-> Len(ItemsInEstabs(dms[i], ItemOfParser(fn)))])

\* C7: whenever Parser1200.parse or Parser2299.parse returns, every line-item
\* row has the "ID Demonstrativo", "Matrícula" and "Origem Arquivo" of some
\* one row of the declaration table returned by the same call.
C7_ReferentialIntegrity ==
    \A fn \in {"Parser1200.parse", "Parser2299.parse"} :
        (Returns(fn) /\ ret.ok) =>
            \A i \in DOMAIN Rubricas(fn).rows :
                \E j \in DOMAIN Demonstrativo(fn).rows :
                    \A c \in {"ID Demonstrativo", "Matrícula", "Origem Arquivo"} :
                        Demonstrativo(fn).rows[j][c] = Rubricas(fn).rows[i][c]

\* C7 witness: a call returned two declarations with different ids and
\* registration numbers, and line items of both
C7_Witness ==
    /\ Returns("Parser2299.parse") /\ ret.ok
    /\ Len(Demonstrativo("Parser2299.parse").rows) = 2
    /\ \E c \in {"ID Demonstrativo"} :
          Demonstrativo("Parser2299.parse").rows[1][c]
             # Demonstrativo("Parser2299.parse").rows[2][c]
    /\ \E c \in {"Matrícula"} :
          Demonstrativo("Parser2299.parse").rows[1][c]
             # Demonstrativo("Parser2299.parse").rows[2][c]
    /\ \A j \in 1..2 : \E i \in DOMAIN Rubricas("Parser2299.parse").rows :
          \A c \in {"ID Demonstrativo"} :
             Rubricas("Parser2299.parse").rows[i][c]
                = Demonstrativo("Parser2299.parse").rows[j][c]


\* p is s zero-filled to the width w: s itself when it has w characters or
\* more, else w characters, the zeros at the left, after a leading sign
ZeroFilled(p, s, w) ==
    LET sign == IF Len(s) < w /\ Len(s) > 0 /\ s[1] \in {"+", "-"} THEN 1 ELSE 0
        pad == Len(p) - Len(s)
    IN  /\ Len(p) = (IF Len(s) >= w THEN Len(s) ELSE w)
        /\ \A i \in 1..sign : p[i] = s[i]
        /\ \A i \in (sign + 1)..(sign + pad) : p[i] = "0"
        /\ \A i \in (sign + 1)..Len(s) : p[i + pad] = s[i]

\* p is s with zeros at its left, and has exactly w characters
LeftPadded(p, s, w) == Len(p) = w /\ p = Rep("0", w - Len(s)) \o s

\* the header and declaration rows of a returned call hold the taxpayer id and
\* the registration numbers of the document, padded as Pad says
PaddedRows(fn, Pad(_, _, _)) ==
    LET evt == FirstOf(arg.a.root, MarkerOfParser(fn))
        dms == Below(evt, {"dmDev"})
        cpf == BaseParser_txt(evt, "cpfTrab")
    IN  /\ \A i \in DOMAIN Cabecalho(fn).rows :
              /\ Cabecalho(fn).rows[i]["CPF Trabalhador"].t = "str"
              /\ Pad(Cabecalho(fn).rows[i]["CPF Trabalhador"].v, cpf, CpfWidth)
        /\ Len(Demonstrativo(fn).rows) = Len(dms)
        /\ \A j \in DOMAIN Demonstrativo(fn).rows :
              /\ Demonstrativo(fn).rows[j]["CPF Trabalhador"].t = "str"
              /\ Pad(Demonstrativo(fn).rows[j]["CPF Trabalhador"].v, cpf, CpfWidth)
              /\ Demonstrativo(fn).rows[j]["Matrícula"].t = "str"
              /\ Pad(Demonstrativo(fn).rows[j]["Matrícula"].v,
                     BaseParser_txt(Below(dms[j], {"ideEstabLot"})[1], "matricula"),
                     MatriculaWidth)

\* C8 as claimed: in every header row and every declaration row of the
\* compensation and termination extractors, the taxpayer id is the source text
\* left-padded with "0" to exactly 11 characters and the registration number
\* is the source text left-padded with "0" to exactly 8 characters.
C8_PaddedToExactWidth ==
    \A fn \in {"Parser1200.parse", "Parser2299.parse"} :
        (Returns(fn) /\ ret.ok) => PaddedRows(fn, LeftPadded)

\* C8 amended: in every header row and every declaration row of the
\* compensation and termination extractors, the taxpayer id (registration
\* number) is the trimmed source text zero-filled to 11 (8) characters: left
\* as it is when it has that many characters or more, else brought to exactly
\* that many by zeros at its left, after a leading sign if it has one; the
\* header of the rate-table extractor holds the employer's registration number
\* trimmed and not padded.
C8_ZeroFilledToWidth ==
    /\ \A fn \in {"Parser1200.parse", "Parser2299.parse"} :
          (Returns(fn) /\ ret.ok) => PaddedRows(fn, ZeroFilled)
    /\ (Returns("Parser1010.parse") /\ ret.ok) =>
          \A i \in DOMAIN ret.value.CABECALHO_1010.rows :
             ret.value.CABECALHO_1010.rows[i]["Nº Inscrição"]
                = Str(BaseParser_txt(FirstOf(arg.a.root, {"evtTabRubrica"}), "nrInsc"))

\* C8 witness: a compensation call returned taxpayer id "123" as "00000000123"
\* in its header and registration number "42" as "00000042" in a declaration
C8_Witness ==
    /\ Returns("Parser1200.parse") /\ ret.ok
    /\ BaseParser_txt(FirstOf(arg.a.root, {"evtRemun", "evt1200"}), "cpfTrab") = T_CPF
    /\ Cabecalho("Parser1200.parse").rows[1]["CPF Trabalhador"]
          = Str(Rep("0", 8) \o T_CPF)
    /\ \E j \in DOMAIN Demonstrativo("Parser1200.parse").rows :
          Demonstrativo("Parser1200.parse").rows[j]["Matrícula"]
             = Str(Rep("0", 6) \o <<"4", "2">>)

-----------------------------------------------------------------------------
(* Properties of join_rubricas *)

\* the rows of R that have the rate code of the left row l
SameCode(R, l) ==
    {j \in DOMAIN R.rows : R.rows[j]["Código Rubrica"] = l["Código Rubrica"]}

\* the reference columns of a rate-detail row, under the names of the result
RefOf(r) ==
    [n \in Range(extra_cols) |->
        IF n = "Origem Arquivo_1010" THEN r["Origem Arquivo"] ELSE r[n]]

NoDuplicateCode(R) ==
    \A i, j \in DOMAIN R.rows :
        R.rows[i]["Código Rubrica"] = R.rows[j]["Código Rubrica"] => i = j

\* C9 as claimed: each output row of join_rubricas holds the values of one
\* left row together with the reference columns of a rate-detail row of the
\* same rate code, or all-missing reference columns when no rate-detail row
\* has that code; every left row appears once per matching rate-detail row
\* and once if it has none.
C9_LeftMatchOnCode ==
    (Returns("join_rubricas") /\ ret.ok) =>
        LET L == arg.a
            R == arg.b
            out == ret.value
        IN  /\ \A i \in DOMAIN out.rows : \E k \in DOMAIN L.rows :
                  /\ \A c \in ColumnSet(L) : out.rows[i][c] = L.rows[k][c]
                  /\ IF SameCode(R, L.rows[k]) = {}
                     THEN \A n \in Range(extra_cols) : out.rows[i][n] = NaN
                     ELSE \E j \in SameCode(R, L.rows[k]) :
                             \A n \in Range(extra_cols) :
                                out.rows[i][n] = RefOf(R.rows[j])[n]
            /\ Len(out.rows)
                  = Sum([k \in DOMAIN L.rows |->
                           IF SameCode(R, L.rows[k]) = {} THEN 1
                           ELSE Cardinality(SameCode(R, L.rows[k]))])

\* C10: join_rubricas(L, R) has at least as many rows as L, and exactly as
\* many when no rate code occurs twice in R; then row i of the result holds
\* the values of row i of L.
C10_KeepsLeftRows ==
    (Returns("join_rubricas") /\ ret.ok) =>
        /\ Len(ret.value.rows) >= Len(arg.a.rows)
        /\ NoDuplicateCode(arg.b) =>
              /\ Len(ret.value.rows) = Len(arg.a.rows)
              /\ \A i \in DOMAIN arg.a.rows : \A c \in ColumnSet(arg.a) :
                    ret.value.rows[i][c] = arg.a.rows[i][c]

\* C10 witness: two left rows of codes B then A were joined with a
\* rate-detail table of two different codes, and two rows came out
C10_Witness ==
    /\ Returns("join_rubricas") /\ ret.ok
    /\ Len(arg.a.rows) = 2 /\ Len(arg.b.rows) = 2 /\ NoDuplicateCode(arg.b)
    /\ arg.a.rows[1]["Código Rubrica"] = Str(<<"B">>)
    /\ arg.a.rows[2]["Código Rubrica"] = Str(<<"A">>)
    /\ Len(ret.value.rows) = 2

-----------------------------------------------------------------------------
(* Properties of harmonizar_rubricas_2299 *)

\* a text "YYYY-MM"
IsYearMonth(s) ==
    Len(s) = 7 /\ s[5] = "-" /\ AllDigits(SubSeq(s, 1, 4) \o SubSeq(s, 6, 7))

\* C11 as claimed: for every table of termination line items,
\* harmonizar_rubricas_2299 returns, never raises; the result has the rows of
\* the input, in order; in each row "Período Apuração" is missing when the
\* row's "Data Desligamento" does not parse and is a "YYYY-MM" text when it
\* does, the first seven characters of the date when that is written year
\* first; the columns are those of the compensation line items, in their
\* order, then "Data Desligamento"; the input table is as it was.
C11_RowPreservingReshape ==
    Returns("harmonizar_rubricas_2299") =>
        /\ ret.ok
        /\ ret.value.columns = Columns1200_RUB \o <<"Data Desligamento">>
        /\ Len(ret.value.rows) = Len(arg.a.rows)
        /\ \A i \in DOMAIN arg.a.rows :
              LET date == arg.a.rows[i]["Data Desligamento"].v
                  period == ret.value.rows[i]["Período Apuração"]
              IN  /\ \A c \in ColumnSet(arg.a) : ret.value.rows[i][c] = arg.a.rows[i][c]
                  /\ ~ParseDate(date).ok => period = NaN
                  /\ ParseDate(date).ok =>
                        /\ period.t = "str" /\ IsYearMonth(period.v)
                        /\ IsYearMonth(SubSeq(date, 1, 7)) => period.v = SubSeq(date, 1, 7)
        /\ arg.a.columns = Columns2299_RUB

-----------------------------------------------------------------------------
(* Properties of the upload steps *)

\* the files of a step that classify as the step's event and whose parse returns
Accepted(step, files) ==
    SelectSeq(files, LAMBDA f : /\ detect_event_code(f.data) = CodeOf(step)
                                /\ ParserOf(step, f).ok)

\* the rows that the accepted files give to table k, in upload order
RowsOfAccepted(step, files, k) ==
    Flatten([i \in DOMAIN Accepted(step, files) |->
                ParserOf(step, Accepted(step, files)[i]).value[k].rows])

\* the rows of table k of a step's result, none if the step made no table k
RowsIn(parsed, k) == IF k \in DOMAIN parsed THEN parsed[k].rows ELSE <<>>

Finished(steps) == pc \notin steps

\* C12: when an upload step has finished, each table of the step holds the
\* rows of exactly those files of the step that classified as the step's event
\* and parsed without error, in upload order (so its row count is the sum of
\* theirs); every other file gives no row to any table of the step, and no
\* file stops the step.
C12_FailureIsolation ==
    /\ Finished({"passo1"}) =>
          \A k \in DOMAIN Tmp1010 :
             RowsIn(parsed_1010, k) = RowsOfAccepted("passo1", files_1010, k)
    /\ Finished({"passo1", "passo2"}) =>
          \A k \in DOMAIN Tmp2299 :
             RowsIn(parsed_2299, k) = RowsOfAccepted("passo2", files_2299, k)
    /\ Finished({"passo1", "passo2", "passo3"}) =>
          \A k \in DOMAIN Tmp1200 :
             RowsIn(parsed_1200, k) = RowsOfAccepted("passo3", files_1200, k)

\* C12 witness: step 1 has finished on a good rate table, a file whose parse
\* raised and the good rate table again, and holds the rows of the two
C12_Witness ==
    /\ Finished({"passo1"})
    /\ files_1010 = <<F_rubricas, F_other, F_rubricas>>
    /\ detect_event_code(F_other.data) = S_1010
    /\ ~Parser1010_parse(F_other.data, F_other.name).ok
    /\ Len(RowsIn(parsed_1010, "RUBRICAS_1010")) = 4
    /\ Len(RowsIn(parsed_1010, "CABECALHO_1010")) = 2

-----------------------------------------------------------------------------
(* Properties of the enrichment and of the export *)

Enriquecido == "RUBRICAS_1200_2299_ENRIQUECIDO"

\* the script run has ended: the export block is done, or an exception ended it
Ended == pc \in {"pronto", "erro"}

\* every event type has a file that classified as it and parsed without error
EveryTypeParsed ==
    /\ Accepted("passo1", files_1010) # <<>>
    /\ Accepted("passo2", files_2299) # <<>>
    /\ Accepted("passo3", files_1200) # <<>>

\* C13 as claimed: at the end of a script run the enriched table exists, and
\* the consolidated export is offered, if and only if every event type has an
\* uploaded file that classified as that type and parsed without error; the
\* enriched table is join_rubricas of the compensation line items followed by
\* the harmonized termination line items, with the rate details, and has at
\* least rows(RUBRICAS_1200) + rows(RUBRICAS_2299) rows; the per-type
\* line-item tables are what the upload steps made them.
C13_EnrichedIffAllThree ==
    Ended =>
        /\ (Enriquecido \in DOMAIN parsed_1200) <=> EveryTypeParsed
        /\ consolidado.offered <=> EveryTypeParsed
        /\ (Enriquecido \in DOMAIN parsed_1200) =>
              /\ parsed_1200[Enriquecido]
                    = join_rubricas(
                         concat(<<parsed_1200["RUBRICAS_1200"],
                                  harmonizar_rubricas_2299(parsed_2299["RUBRICAS_2299"]).value>>),
                         parsed_1010["RUBRICAS_1010"]).value
              /\ Len(parsed_1200[Enriquecido].rows)
                    >= Len(parsed_1200["RUBRICAS_1200"].rows)
                       + Len(parsed_2299["RUBRICAS_2299"].rows)
        /\ RowsIn(parsed_1200, "RUBRICAS_1200")
              = RowsOfAccepted("passo3", files_1200, "RUBRICAS_1200")
        /\ RowsIn(parsed_2299, "RUBRICAS_2299")
              = RowsOfAccepted("passo2", files_2299, "RUBRICAS_2299")
        /\ RowsIn(parsed_1010, "RUBRICAS_1010")
              = RowsOfAccepted("passo1", files_1010, "RUBRICAS_1010")
        /\ "RUBRICAS_2299" \in DOMAIN parsed_2299
              => parsed_2299["RUBRICAS_2299"].columns = Columns2299_RUB

=============================================================================
